---- MODULE Spec2Model ----
(***************************************************************************)
(* Model of the resume analyser web backend (src/app.py): the /analyze     *)
(* request handler, perform_comprehensive_analysis and                     *)
(* generate_recommendations.                                               *)
(*                                                                         *)
(* The analysis engine (advanced_resume_analyzer) is imported by app.py    *)
(* and is not part of the sources; its outputs are inputs of the model,    *)
(* held in the variable `engine`.                                          *)
(*                                                                         *)
(* Strings that the code builds by formatting are sequences of string      *)
(* tokens; concatenation is \o.  The emoji of the message literals are     *)
(* written as ASCII tags.                                                  *)
(***************************************************************************)
EXTENDS Integers, Sequences, FiniteSets, TLC

(***************************************************************************)
(* Python floats (IEEE-754 binary64).                                      *)
(*                                                                         *)
(* A non-negative float below 2^7 is <<i, f1, f2, f3>>: the integer part   *)
(* and three 20-bit limbs of the fraction, most significant first, i.e.    *)
(* i + f1/2^20 + f2/2^40 + f3/2^60.  The values used are 0 and floats of   *)
(* at least 2^-7, whose unit in the last place is at least 2^-59, so the   *)
(* representation is exact.  Operations round to 53 significant bits,      *)
(* ties to even, as the hardware does.                                     *)
(***************************************************************************)
LimbBits == 20

Limb == 2^LimbBits

MantissaBits == 53

FracBits == 3 * LimbBits

FZero == <<0, 0, 0, 0>>

FromInt(n) == <<n, 0, 0, 0>>

\* floor(log2 n) for 1 <= n < 2^21
Log2(n) == CHOOSE e \in 0..LimbBits : 2^e <= n /\ n < 2^(e + 1)

\* floor(log2 x) for a positive x
Exponent(x) ==
  IF x[1] > 0 THEN Log2(x[1])
  ELSE IF x[2] > 0 THEN Log2(x[2]) - LimbBits
  ELSE IF x[3] > 0 THEN Log2(x[3]) - 2 * LimbBits
  ELSE Log2(x[4]) - 3 * LimbBits

\* propagate a carry out of the last limb
Carry(x) ==
  LET c3 == x[4] \div Limb
      g2 == x[3] + c3
      c2 == g2 \div Limb
      g1 == x[2] + c2
      c1 == g1 \div Limb
  IN  <<x[1] + c1, g1 % Limb, g2 % Limb, x[4] % Limb>>

\* The float nearest to the exact value x (+ something below 2^-60 when
\* sticky): round to MantissaBits significant bits, ties to even.
RoundToFloat(x, sticky) ==
  IF x = FZero THEN FZero
  ELSE
    LET k == FracBits - (MantissaBits - 1 - Exponent(x))
    IN  IF k <= 0 THEN x
        ELSE
          LET unit == 2^k
              q    == x[4] \div unit
              r    == x[4] % unit
              half == unit \div 2
              up   == \/ r > half
                      \/ r = half /\ sticky
                      \/ r = half /\ ~sticky /\ q % 2 = 1
          IN  Carry(<<x[1], x[2], x[3], (IF up THEN q + 1 ELSE q) * unit>>)

\* float + int, the int a small non-negative literal
FAddInt(x, n) == RoundToFloat(<<x[1] + n, x[2], x[3], x[4]>>, FALSE)

\* x < y
FLess(x, y) ==
  \/ x[1] < y[1]
  \/ x[1] = y[1] /\ x[2] < y[2]
  \/ x[1] = y[1] /\ x[2] = y[2] /\ x[3] < y[3]
  \/ x[1] = y[1] /\ x[2] = y[2] /\ x[3] = y[3] /\ x[4] < y[4]

\* x < n for an int n
FLessInt(x, n) == x[1] < n

\* min(x, n) for an int n: Python returns the first argument unless the
\* second is strictly smaller
FMinInt(x, n) == IF FLess(FromInt(n), x) THEN FromInt(n) ELSE x

\* round(x, 1): the decimal with one digit nearest to the exact value of
\* x, ties to the even digit; the result is given as a count of tenths.
Round1(x) ==
  LET p3 == 10 * x[4]
      p2 == 10 * x[3] + p3 \div Limb
      p1 == 10 * x[2] + p2 \div Limb
      t  == 10 * x[1] + p1 \div Limb
      h1 == p1 % Limb
      rest == (p2 % Limb) + (p3 % Limb)
      half == Limb \div 2
  IN  IF h1 > half \/ (h1 = half /\ rest > 0) THEN t + 1
      ELSE IF h1 = half /\ rest = 0 THEN (IF t % 2 = 1 THEN t + 1 ELSE t)
      ELSE t

\* The float nearest to c/100: what the literal c/100 (or a score rounded
\* to two decimals) is as a float.
FromHundredths(c) ==
  LET n1 == (c % 100) * Limb
      n2 == (n1 % 100) * Limb
      n3 == (n2 % 100) * Limb
  IN  RoundToFloat(<<c \div 100, n1 \div 100, n2 \div 100, n3 \div 100>>,
                   n3 % 100 # 0)

(***************************************************************************)
(* Strings and mappings.                                                   *)
(***************************************************************************)
\* A value that may be absent is a sequence of at most one element
None == <<>>

Some(v) == <<v>>

\* An exception of the given type, as the outcome of a call
Raise(type) == [raised |-> type]

Raised(outcome) == "raised" \in DOMAIN outcome

\* str.join(", ", items)
RECURSIVE Join(_)
Join(items) ==
  IF Len(items) = 0 THEN <<>>
  ELSE IF Len(items) = 1 THEN <<items[1]>>
  ELSE <<items[1], ", ">> \o Join(Tail(items))

\* items[:n]
Take(items, n) == SubSeq(items, 1, IF Len(items) < n THEN Len(items) ELSE n)

\* s.replace(label, ''), the label one token of the string
Replace(s, label) == SelectSeq(s, LAMBDA tok : tok # label)

\* len(text.split()): the number of maximal runs of non-space characters
RECURSIVE CountWords(_, _)
CountWords(text, inWord) ==
  IF Len(text) = 0 THEN 0
  ELSE IF Head(text) = " " THEN CountWords(Tail(text), FALSE)
  ELSE (IF inWord THEN 0 ELSE 1) + CountWords(Tail(text), TRUE)

\* sum(len(keywords) for keywords in tech_keywords.values())
RECURSIVE SumLen(_)
SumLen(entries) ==
  IF Len(entries) = 0 THEN 0
  ELSE Len(Head(entries).keywords) + SumLen(Tail(entries))

\* max(items, key=score): Python returns the first item whose key no later
\* item exceeds; best is the item kept so far.
RECURSIVE MaxFrom(_, _)
MaxFrom(best, items) ==
  IF Len(items) = 0 THEN best
  ELSE MaxFrom(IF FLess(best.score, Head(items).score) THEN Head(items) ELSE best,
               Tail(items))

\* The tie-break of a loop written with >=: the last maximal item
RECURSIVE MaxFromLastWins(_, _)
MaxFromLastWins(best, items) ==
  IF Len(items) = 0 THEN best
  ELSE MaxFromLastWins(IF FLess(Head(items).score, best.score) THEN best
                       ELSE Head(items),
                       Tail(items))

MaxByScoreLastWins(job_matches) ==
  MaxFromLastWins(Head(job_matches), Tail(job_matches))

\* max(job_matches.items(), key=lambda x: x[1]['score']); a mapping is the
\* sequence of its entries in insertion order
MaxByScore(job_matches) == MaxFrom(Head(job_matches), Tail(job_matches))

(***************************************************************************)
(* The analysis engine, as app.py sees it.  parse_resume_sections,         *)
(* analyze_technical_keywords, calculate_job_profile_match and             *)
(* calculate_comprehensive_ats_score return what `engine` holds for the    *)
(* text; a text for which the engine raises has engine[text].fault set.    *)
(***************************************************************************)
VARIABLES
  engine,    \* text -> what the engine returns for it
  call,      \* a direct call of perform_comprehensive_analysis: its arguments
  result,    \* ... and what it returned, None before it returns
  uploads,   \* the uploads folder: file name -> document
  reports,   \* the reports folder: file name -> report
  usedIds,   \* the file ids uuid4 has handed out
  req        \* the /analyze requests in progress

vars == <<engine, call, result, uploads, reports, usedIds, req>>

\* JOB_PROFILES in declaration order
Profiles == <<"Software Engineer", "Data Scientist", "DevOps Engineer">>

parse_resume_sections(resume_text) == engine[resume_text].sections

analyze_technical_keywords(resume_text) == engine[resume_text].tech_keywords

calculate_job_profile_match(resume_text, sections) ==
  engine[resume_text].job_matches

calculate_comprehensive_ats_score(resume_text, sections, job_matches) ==
  <<engine[resume_text].ats_score, engine[resume_text].score_breakdown>>

\* analyze_section_details(section_name, content): the issues found in the
\* content and the priority, the highest severity among them
analyze_section_details(section_name, content) ==
  CASE content = "" ->
         [issues |-> << <<"[!] CRITICAL: ", "section has no content">> >>,
          improvement_priority |-> "CRITICAL"]
    [] content = "tbd" ->
         [issues |-> << <<"[x] CRITICAL: ", "placeholder text only">>,
                        <<"add quantifiable metrics">> >>,
          improvement_priority |-> "CRITICAL"]
    [] content = "short" ->
         [issues |-> << <<"section is too short">> >>,
          improvement_priority |-> "HIGH"]
    [] OTHER ->
         [issues |-> <<>>, improvement_priority |-> "LOW"]

(***************************************************************************)
(* generate_recommendations                                                *)
(***************************************************************************)
\* the message for one section, or nothing
SectionMessage(entry) ==
  IF entry.analysis.improvement_priority = "CRITICAL"
     /\ Len(entry.analysis.issues) > 0
  THEN << <<"[!] Fix ", entry.name, " section: ">>
          \o Replace(Replace(entry.analysis.issues[1], "[x] CRITICAL: "),
                     "[!] CRITICAL: ") >>
  ELSE <<>>

\* for section_name, analysis in section_analyses.items(): ...
RECURSIVE SectionMessages(_)
SectionMessages(section_analyses) ==
  IF Len(section_analyses) = 0 THEN <<>>
  ELSE SectionMessage(Head(section_analyses))
       \o SectionMessages(Tail(section_analyses))

DensityWarningAlways(ats_score) == TRUE

\* if ats_score < 70
DensityWarning(ats_score) == FLessInt(ats_score, 70)

HighGuidance ==
  << <<"Add more quantifiable metrics and achievements">>,
     <<"Increase action verb usage in experience descriptions">>,
     <<"Expand technical skills section with relevant technologies">> >>

DensityMessage == <<"Increase technical keyword density throughout resume">>

MediumGuidance ==
  << <<"Optimize formatting and visual consistency">>,
     <<"Add portfolio/GitHub links if missing">>,
     <<"Include relevant certifications or recent courses">>,
     <<"Tailor summary/objective for target roles">>,
     <<"Ensure consistent bullet point formatting">> >>

generate_recommendations(job_matches, section_analyses, ats_score) ==
  LET best_match_data == MaxByScore(job_matches)
  IN  [critical |->
         (IF Len(best_match_data.missing_required) > 0
          THEN << <<"[!] Add missing critical keywords: ">>
                  \o Join(Take(best_match_data.missing_required, 3)) >>
          ELSE <<>>)
         \o SectionMessages(section_analyses),
       high |->
         (IF DensityWarning(ats_score) THEN <<DensityMessage>> ELSE <<>>)
         \o HighGuidance
         \o (IF Len(best_match_data.missing_preferred) > 0
             THEN << <<"Consider adding preferred keywords: ">>
                     \o Join(Take(best_match_data.missing_preferred, 3)) >>
             ELSE <<>>),
       medium |-> MediumGuidance]

(***************************************************************************)
(* perform_comprehensive_analysis                                          *)
(***************************************************************************)
\* for section_name, content in sections.items():
\*     section_analyses[section_name] = analyze_section_details(...)
SectionAnalyses(sections) ==
  [i \in 1..Len(sections) |->
     [name |-> sections[i].name,
      analysis |-> analyze_section_details(sections[i].name,
                                           sections[i].content)]]

ImprovementNoCeiling(ats_score) == FAddInt(ats_score, 15)

\* min(ats_score + 15, 95)
ImprovementPotential(ats_score) == FMinInt(FAddInt(ats_score, 15), 95)

perform_comprehensive_analysis(resume_text, file_id) ==
  IF engine[resume_text].fault = "analysis" THEN Raise("EngineError")
  ELSE IF Len(engine[resume_text].job_matches) = 0
  THEN Raise("ValueError")   \* max() arg is an empty sequence
  ELSE
  LET sections == parse_resume_sections(resume_text)
      tech_keywords == analyze_technical_keywords(resume_text)
      job_matches == calculate_job_profile_match(resume_text, sections)
      score == calculate_comprehensive_ats_score(resume_text, sections,
                                                 job_matches)
      ats_score == score[1]
      best_match == MaxByScore(job_matches)
      section_analyses == SectionAnalyses(sections)
      recommendations ==
        generate_recommendations(job_matches, section_analyses, ats_score)
      improvement_potential == ImprovementPotential(ats_score)
  IN  [report_id |-> file_id,
       ats_score |-> Round1(ats_score),
       best_job_match |-> best_match.name,
       match_percentage |-> Round1(best_match.score),
       tech_keywords_found |-> SumLen(tech_keywords),
       improvement_potential |-> Round1(improvement_potential),
       total_words |-> CountWords(resume_text, FALSE),
       job_matches |-> job_matches,
       sections |-> section_analyses,
       score_breakdown |-> score[2],
       recommendations |-> recommendations,
       tech_keywords |-> tech_keywords]

(***************************************************************************)
(* Direct calls of perform_comprehensive_analysis: the engine's outputs    *)
(* for the text are drawn from the sets below.                             *)
(***************************************************************************)
\* ats_score ranges over the floats nearest to 0.00, 0.01, ..., 100.00
MaxAtsHundredths == 10000

\* the profiles' scores, in hundredths
ScoreChoices == {3000, 7245, 7250, 10000}

SectionNames == {"experience", "skills", "education"}

Contents == {"", "tbd", "short", "good"}

AnalysisText == <<"p", "y", " ", "s", "q", "l">>

RequiredOf(i) ==
  CASE i = 1 -> <<"python", "sql", "git", "docker">>
    [] i = 2 -> <<"statistics", "pandas">>
    [] OTHER -> <<"kubernetes">>

PreferredOf(i) ==
  CASE i = 1 -> <<>>
    [] i = 2 -> <<"spark", "airflow", "tableau", "scala">>
    [] OTHER -> <<"terraform">>

\* one entry of job_matches per profile, in declaration order
JobMatches(n, scores, missing) ==
  [i \in 1..n |->
     [name |-> Profiles[i],
      score |-> FromHundredths(scores[i]),
      missing_required |-> IF missing[i] THEN RequiredOf(i) ELSE <<>>,
      missing_preferred |-> PreferredOf(i)]]

JobMatchChoices ==
  UNION {{JobMatches(n, sc, ms) : sc \in [1..n -> ScoreChoices],
                                  ms \in [1..n -> BOOLEAN]}
         : n \in 0..Len(Profiles)}

\* the parsed sections in insertion order: distinct names, any order
SectionChoices ==
  UNION {{[i \in 1..n |-> [name |-> nm[i], content |-> ct[i]]] :
            nm \in {f \in [1..n -> SectionNames] :
                      \A i, j \in 1..n : i # j => f[i] # f[j]},
            ct \in [1..n -> Contents]}
         : n \in 0..Cardinality(SectionNames)}

BaseEngine ==
  [sections |-> << [name |-> "skills", content |-> "good"],
                   [name |-> "experience", content |-> "short"] >>,
   tech_keywords |-> << [category |-> "languages",
                         keywords |-> <<"python", "sql">>],
                        [category |-> "cloud", keywords |-> <<>>] >>,
   job_matches |-> JobMatches(3, <<7250, 7250, 3000>>,
                              <<TRUE, FALSE, TRUE>>),
   ats_score |-> FromHundredths(6180),
   score_breakdown |-> [keyword_density |-> 412, job_alignment |-> 725],
   fault |-> "none"]

EngineChoices ==
  {[BaseEngine EXCEPT !.ats_score = FromHundredths(c)] :
     c \in 0..MaxAtsHundredths}
  \cup {[BaseEngine EXCEPT !.job_matches = jm, !.ats_score = FromHundredths(c)] :
          jm \in JobMatchChoices, c \in {6996, 8000}}
  \cup {[BaseEngine EXCEPT !.sections = sec, !.job_matches = jm] :
          sec \in SectionChoices,
          jm \in {JobMatches(2, <<7250, 3000>>, <<TRUE, TRUE>>),
                  JobMatches(2, <<7250, 3000>>, <<FALSE, TRUE>>)}}

InitAnalysis ==
  /\ \E e \in EngineChoices : engine = [t \in {AnalysisText} |-> e]
  /\ call = [resume_text |-> AnalysisText, file_id |-> "id1"]
  /\ result = None
  /\ uploads = {}
  /\ reports = {}
  /\ usedIds = {}
  /\ req = <<>>

\* analysis_result = perform_comprehensive_analysis(resume_text, file_id)
Analyse ==
  /\ result = None
  /\ result' = Some(perform_comprehensive_analysis(call.resume_text,
                                                   call.file_id))
  /\ UNCHANGED <<engine, call, uploads, reports, usedIds, req>>

NextAnalysis == Analyse

SpecAnalysis == InitAnalysis /\ [][NextAnalysis]_vars

(***************************************************************************)
(* The /analyze handler.  File names are sequences of characters.          *)
(***************************************************************************)
ALLOWED_EXTENSIONS == {<<"p", "d", "f">>, <<"t", "x", "t">>}

\* str.lower(), on the characters file names are made of
LowerChar(c) ==
  CASE c = "P" -> "p"
    [] c = "D" -> "d"
    [] c = "F" -> "f"
    [] c = "T" -> "t"
    [] c = "X" -> "x"
    [] OTHER -> c

Lower(str) == [i \in 1..Len(str) |-> LowerChar(str[i])]

\* '.' in filename
HasDot(filename) == \E i \in 1..Len(filename) : filename[i] = "."

\* filename.rsplit('.', 1): split at the last dot; one part when there is
\* no dot
RSplit(filename) ==
  IF ~HasDot(filename) THEN <<filename>>
  ELSE LET last == CHOOSE i \in 1..Len(filename) :
                     /\ filename[i] = "."
                     /\ \A j \in (i + 1)..Len(filename) : filename[j] # "."
       IN  <<SubSeq(filename, 1, last - 1),
             SubSeq(filename, last + 1, Len(filename))>>

\* filename.split('.', 1): split at the first dot
Split(filename) ==
  IF ~HasDot(filename) THEN <<filename>>
  ELSE LET first == CHOOSE i \in 1..Len(filename) :
                      /\ filename[i] = "."
                      /\ \A j \in 1..(i - 1) : filename[j] # "."
       IN  <<SubSeq(filename, 1, first - 1),
             SubSeq(filename, first + 1, Len(filename))>>

\* the extension taken after the first dot, and only its first component
allowed_file_first_dot(filename) ==
  /\ HasDot(filename)
  /\ Lower(RSplit(Split(filename)[2])[1]) \in ALLOWED_EXTENSIONS

allowed_file(filename) ==
  /\ HasDot(filename)
  /\ Lower(RSplit(filename)[2]) \in ALLOWED_EXTENSIONS

\* werkzeug's secure_filename, on names of letters and dots: leading and
\* trailing dots are stripped
RECURSIVE StripLeadingDots(_)
StripLeadingDots(str) ==
  IF Len(str) > 0 /\ Head(str) = "." THEN StripLeadingDots(Tail(str)) ELSE str

RECURSIVE StripTrailingDots(_)
StripTrailingDots(str) ==
  IF Len(str) > 0 /\ str[Len(str)] = "."
  THEN StripTrailingDots(SubSeq(str, 1, Len(str) - 1))
  ELSE str

secure_filename(filename) == StripTrailingDots(StripLeadingDots(filename))

\* str(uuid.uuid4()): an id never handed out before
uuid4 == ToString(Cardinality(usedIds) + 1)

\* a saved name taken from the client's file name
SavedPathFromClientName(file_id, filename, file_extension) ==
  <<"uploads", "", filename>>

\* os.path.join(UPLOAD_FOLDER, f"{file_id}.{file_extension}"): the folder,
\* the stem and the rest of the name
SavedPath(file_id, filename, file_extension) ==
  <<"uploads", file_id, file_extension>>

\* os.path.join(REPORTS_FOLDER, f"{file_id}_analysis_report.txt")
ReportPath(file_id) == <<"reports", file_id, <<"_analysis_report.txt">>>>

Exists(folder, path) == \E f \in folder : f.path = path

Write(folder, path, content) ==
  {f \in folder : f.path # path} \cup {[path |-> path, content |-> content]}

Unlink(folder, path) == {f \in folder : f.path # path}

ContentAt(folder, path) == (CHOOSE f \in folder : f.path = path).content

\* extract_resume_text(filepath): the text of the document at the path,
\* None when the document holds no extractable text; raises when the
\* document cannot be read or the file is not there
extract_resume_text(filepath) ==
  IF ~Exists(uploads, filepath) THEN Raise("FileNotFoundError")
  ELSE LET doc == ContentAt(uploads, filepath)
       IN  CASE doc.kind = "corrupt" -> Raise("ExtractionError")
             [] doc.kind = "scanned" -> [kind |-> "none", text |-> <<>>]
             [] OTHER -> [kind |-> "text", text |-> doc.text]

IsNone(resume_text) == resume_text.kind = "none"

\* not resume_text
Falsy(resume_text) == resume_text.kind = "none" \/ resume_text.text = <<>>

\* generate_comprehensive_report(resume_text, report_path): the report
\* written, or the exception raised
generate_comprehensive_report(resume_text) ==
  IF engine[resume_text].fault = "report" THEN Raise("EngineError")
  ELSE [report_of |-> resume_text]

\* jsonify({'success': True, 'analysis': analysis_result}); raises on a
\* value JSON cannot hold
jsonify_success(resume_text, analysis_result) ==
  IF engine[resume_text].fault = "jsonify" THEN Raise("TypeError")
  ELSE [success |-> TRUE, analysis |-> analysis_result]

Failure(error) == [success |-> FALSE, error |-> error]

\* a handler that catches only OSError
CatchesOnlyOSError(exception) == exception = "FileNotFoundError"

\* except Exception as e
Catches(exception) == TRUE

(***************************************************************************)
(* Requests.  A request is at pc: idle, save, extract, cleanup, analyse,   *)
(* report, remove, respond, done; escaped when an exception left the       *)
(* handler.  saved, extract_calls, responses and touched record what the   *)
(* request did: whether it saved its upload, how often it called           *)
(* extract_resume_text, how many responses it returned and which paths it  *)
(* read, wrote or removed.                                                 *)
(***************************************************************************)
NumRequests == 2

Requests == 1..NumRequests

TextA == AnalysisText

TextB == <<"j", "s">>

TextAnalysisFault == <<"a">>

TextReportFault == <<"r", " ">>

TextJsonFault == <<"u">>

Texts == {TextA, TextB, <<>>, TextAnalysisFault, TextReportFault, TextJsonFault}

TextDoc(text) == [kind |-> "text", text |-> text]

Docs == {TextDoc(t) : t \in Texts}
        \cup {[kind |-> "corrupt", text |-> <<>>],
              [kind |-> "scanned", text |-> <<>>]}

Name(ext) == <<"c", ".">> \o ext

Filenames ==
  {<<>>, <<"c">>, <<"c", ".">>, Name(<<"d", "o", "c">>),
   Name(<<"p", "d", "f", ".", "d", "o", "c">>),
   Name(<<"p", "d", "f">>), Name(<<"P", "D", "F">>), Name(<<"t", "x", "t">>),
   <<".", "p", "d", "f">>}

RequestInputs ==
  {[has_file |-> FALSE, filename |-> <<>>, doc |-> TextDoc(TextA)]}
  \cup {[has_file |-> TRUE, filename |-> fn, doc |-> TextDoc(TextA)] :
          fn \in Filenames}
  \cup {[has_file |-> TRUE, filename |-> Name(<<"p", "d", "f">>), doc |-> d] :
          d \in Docs}

\* what the engine returns for each text
EngineTable ==
  [t \in Texts |->
     CASE t = TextA -> BaseEngine
       [] t = TextB ->
            [BaseEngine EXCEPT
               !.sections = << [name |-> "experience", content |-> ""] >>,
               !.tech_keywords = << [category |-> "languages",
                                     keywords |-> <<"js">>] >>,
               !.job_matches = JobMatches(3, <<3000, 3000, 7245>>,
                                          <<TRUE, TRUE, FALSE>>),
               !.ats_score = FromHundredths(6996)]
       [] t = <<>> ->
            [BaseEngine EXCEPT
               !.sections = <<>>,
               !.tech_keywords = << [category |-> "languages",
                                     keywords |-> <<>>] >>,
               !.job_matches = JobMatches(3, <<0, 0, 0>>,
                                          <<TRUE, TRUE, TRUE>>),
               !.ats_score = FZero]
       [] t = TextAnalysisFault -> [BaseEngine EXCEPT !.fault = "analysis"]
       [] t = TextReportFault -> [BaseEngine EXCEPT !.fault = "report"]
       [] OTHER -> [BaseEngine EXCEPT !.fault = "jsonify"]]

NoText == [kind |-> "unset", text |-> <<>>]

IdleRequest ==
  [pc |-> "idle", input |-> None, file_id |-> "", filepath |-> None,
   resume_text |-> NoText, analysis_result |-> None, response |-> None,
   saved |-> FALSE, extract_calls |-> 0, responses |-> 0, touched |-> {}]

Init ==
  /\ engine = EngineTable
  /\ call = None
  /\ result = None
  /\ uploads = {}
  /\ reports = {}
  /\ usedIds = {}
  /\ req = [r \in Requests |-> IdleRequest]

\* return jsonify(...)
Return(request, response) ==
  [request EXCEPT !.pc = "done", !.response = Some(response),
                  !.responses = @ + 1]

\* an exception raised inside the try block: lines 107-109
Except(request, exception) ==
  IF Catches(exception)
  THEN Return(request, Failure(<<"Analysis failed: ", exception>>))
  ELSE [request EXCEPT !.pc = "escaped"]

\* lines 60-69: the request arrives and its file name is checked
Receive(r) ==
  /\ req[r].pc = "idle"
  /\ \E input \in RequestInputs :
       LET request == [req[r] EXCEPT !.input = Some(input)]
       IN  req' = [req EXCEPT ![r] =
             IF ~input.has_file
             THEN Return(request, Failure(<<"No file provided">>))
             ELSE IF input.filename = <<>>
             THEN Return(request, Failure(<<"No file selected">>))
             ELSE IF ~allowed_file(input.filename)
             THEN Return(request, Failure(
                    <<"Invalid file type. Please upload PDF or TXT files only.">>))
             ELSE [request EXCEPT !.pc = "save"]]
  /\ UNCHANGED <<engine, call, result, uploads, reports, usedIds>>

\* lines 72-79: the upload is saved under a fresh id
SaveUpload(r) ==
  /\ req[r].pc = "save"
  /\ LET filename == secure_filename(req[r].input[1].filename)
         file_id == uuid4
         parts == RSplit(filename)
     IN  /\ usedIds' = usedIds \cup {file_id}
         /\ IF Len(parts) < 2
            THEN /\ req' = [req EXCEPT ![r] =
                      Except([@ EXCEPT !.file_id = file_id], "IndexError")]
                 /\ UNCHANGED uploads
            ELSE LET filepath == SavedPath(file_id, filename, Lower(parts[2]))
                 IN  /\ uploads' = Write(uploads, filepath, req[r].input[1].doc)
                     /\ req' = [req EXCEPT ![r] =
                          [@ EXCEPT !.pc = "extract", !.file_id = file_id,
                                    !.filepath = Some(filepath),
                                    !.saved = TRUE,
                                    !.touched = @ \cup {filepath}]]
  /\ UNCHANGED <<engine, call, result, reports>>

\* lines 82-83: resume_text = extract_resume_text(filepath)
ExtractText(r) ==
  /\ req[r].pc = "extract"
  /\ LET outcome == extract_resume_text(req[r].filepath[1])
         request == [req[r] EXCEPT !.extract_calls = @ + 1,
                                   !.touched = @ \cup {req[r].filepath[1]}]
     IN  req' = [req EXCEPT ![r] =
           IF Raised(outcome) THEN Except(request, outcome.raised)
           ELSE [request EXCEPT
                   !.resume_text = outcome,
                   !.pc = IF Falsy(outcome) THEN "cleanup" ELSE "analyse"]]
  /\ UNCHANGED <<engine, call, result, uploads, reports, usedIds>>

\* lines 84-85: no text was extracted
RemoveEmpty(r) ==
  /\ req[r].pc = "cleanup"
  /\ LET filepath == req[r].filepath[1]
         request == [req[r] EXCEPT !.touched = @ \cup {filepath}]
     IN  IF Exists(uploads, filepath)
         THEN /\ uploads' = Unlink(uploads, filepath)
              /\ req' = [req EXCEPT ![r] =
                   Return(request,
                          Failure(<<"Could not extract text from the file">>))]
         ELSE /\ req' = [req EXCEPT ![r] = Except(request, "FileNotFoundError")]
              /\ UNCHANGED uploads
  /\ UNCHANGED <<engine, call, result, reports, usedIds>>

\* line 90: analysis_result = perform_comprehensive_analysis(...)
PerformAnalysis(r) ==
  /\ req[r].pc = "analyse"
  /\ LET outcome == perform_comprehensive_analysis(req[r].resume_text.text,
                                                   req[r].file_id)
     IN  req' = [req EXCEPT ![r] =
           IF Raised(outcome) THEN Except(@, outcome.raised)
           ELSE [@ EXCEPT !.analysis_result = Some(outcome), !.pc = "report"]]
  /\ UNCHANGED <<engine, call, result, uploads, reports, usedIds>>

\* lines 93-95: the report is written
GenerateReport(r) ==
  /\ req[r].pc = "report"
  /\ LET report_path == ReportPath(req[r].file_id)
         outcome == generate_comprehensive_report(req[r].resume_text.text)
     IN  IF Raised(outcome)
         THEN /\ req' = [req EXCEPT ![r] = Except(@, outcome.raised)]
              /\ UNCHANGED reports
         ELSE /\ reports' = Write(reports, report_path, outcome)
              /\ req' = [req EXCEPT ![r] =
                   [@ EXCEPT !.pc = "remove",
                             !.touched = @ \cup {report_path}]]
  /\ UNCHANGED <<engine, call, result, uploads, usedIds>>

\* line 98: os.remove(filepath)
RemoveUpload(r) ==
  /\ req[r].pc = "remove"
  /\ LET filepath == req[r].filepath[1]
         request == [req[r] EXCEPT !.touched = @ \cup {filepath}]
     IN  IF Exists(uploads, filepath)
         THEN /\ uploads' = Unlink(uploads, filepath)
              /\ req' = [req EXCEPT ![r] = [request EXCEPT !.pc = "respond"]]
         ELSE /\ req' = [req EXCEPT ![r] = Except(request, "FileNotFoundError")]
              /\ UNCHANGED uploads
  /\ UNCHANGED <<engine, call, result, reports, usedIds>>

\* lines 100-105: the success response
Respond(r) ==
  /\ req[r].pc = "respond"
  /\ LET outcome == jsonify_success(req[r].resume_text.text,
                                    req[r].analysis_result[1])
     IN  req' = [req EXCEPT ![r] =
           IF Raised(outcome) THEN Except(@, outcome.raised)
           ELSE Return(@, outcome)]
  /\ UNCHANGED <<engine, call, result, uploads, reports, usedIds>>

Next ==
  \E r \in Requests :
    \/ Receive(r)
    \/ SaveUpload(r)
    \/ ExtractText(r)
    \/ RemoveEmpty(r)
    \/ PerformAnalysis(r)
    \/ GenerateReport(r)
    \/ RemoveUpload(r)
    \/ Respond(r)

Spec == Init /\ [][Next]_vars

(***************************************************************************)
(* Properties of the result of perform_comprehensive_analysis              *)
(* (SpecAnalysis).  Reported numbers are counts of tenths.                 *)
(***************************************************************************)
\* the call has returned a result (it did not raise)
Returned == result # None /\ ~Raised(result[1])

\* what the engine returned for the text of the call
EngineOut == engine[call.resume_text]

Min(a, b) == IF a < b THEN a ELSE b

\* the first-declared profile among those of maximal score
ArgmaxFirst(jm) ==
  CHOOSE i \in 1..Len(jm) :
    /\ \A j \in 1..Len(jm) : ~FLess(jm[i].score, jm[j].score)
    /\ \A j \in 1..(i - 1) : FLess(jm[j].score, jm[i].score)

MissingRequiredHeader == "[!] Add missing critical keywords: "

MissingPreferredHeader == "Consider adding preferred keywords: "

HasMissingMessage(critical) ==
  Len(critical) > 0 /\ critical[1][1] = MissingRequiredHeader

\* C1: for a non-empty job_matches, best_job_match is the profile of
\* maximal score, the first declared among those that share it;
\* match_percentage is that profile's score (as reported, to one decimal);
\* generate_recommendations draws the missing required and preferred
\* keywords of its messages from that same profile.
C1_BestJobMatch ==
  Returned =>
    LET v == result[1]
        jm == v.job_matches
        b == jm[ArgmaxFirst(jm)]
        critical == v.recommendations.critical
        high == v.recommendations.high
    IN  /\ v.best_job_match = b.name
        /\ v.match_percentage = Round1(b.score)
        /\ HasMissingMessage(critical) <=> Len(b.missing_required) > 0
        /\ Len(b.missing_required) > 0 =>
             critical[1] = <<MissingRequiredHeader>>
                           \o Join(Take(b.missing_required, 3))
        /\ high[Len(high)][1] = MissingPreferredHeader
             <=> Len(b.missing_preferred) > 0
        /\ Len(b.missing_preferred) > 0 =>
             high[Len(high)] = <<MissingPreferredHeader>>
                               \o Join(Take(b.missing_preferred, 3))

\* C1 witness: two profiles share the maximal score, the first declared is
\* reported, and it differs from the later one in its missing keywords
C1_Witness ==
  /\ Returned
  /\ Len(result[1].job_matches) = 3
  /\ result[1].job_matches[1].score = result[1].job_matches[3].score
  /\ FLess(result[1].job_matches[2].score, result[1].job_matches[1].score)
  /\ result[1].job_matches[1].missing_required = <<>>
  /\ result[1].job_matches[3].missing_required # <<>>
  /\ result[1].best_job_match = Profiles[1]
  /\ ~HasMissingMessage(result[1].recommendations.critical)

\* C2 as claimed: the reported improvement_potential equals
\* min(reported ats_score + 15, 95) exactly, and never exceeds 95.
C2_ImprovementExact ==
  Returned =>
    /\ result[1].improvement_potential = Min(result[1].ats_score + 150, 950)
    /\ result[1].improvement_potential <= 950

\* C2 as amended: the reported improvement_potential is computed from the
\* unrounded score and rounded on its own; it never exceeds 95, is within
\* 0.1 of min(reported ats_score + 15, 95), and equals it whenever the
\* unrounded ats_score is the float of a one-decimal number.
C2_ImprovementWithinTenth ==
  Returned =>
    LET imp == result[1].improvement_potential
        fromReported == Min(result[1].ats_score + 150, 950)
    IN  /\ imp <= 950
        /\ imp - fromReported \in {-1, 0, 1}
        /\ EngineOut.ats_score = FromHundredths(10 * result[1].ats_score)
             => imp = fromReported

\* C2 witness: a result whose two reported numbers are a tenth apart from
\* the claimed relation, below the ceiling
C2_Witness ==
  /\ Returned
  /\ result[1].improvement_potential < 950
  /\ result[1].improvement_potential = result[1].ats_score + 151

HasDensityWarning(high) == \E i \in 1..Len(high) : high[i] = DensityMessage

\* C10 as claimed: the density warning is in the 'high' bucket only if the
\* reported ats_score is below 70, and is then its first entry, ahead of
\* the three fixed guidance strings.
C10_DensityOnlyBelowReported70 ==
  Returned =>
    LET high == result[1].recommendations.high
    IN  HasDensityWarning(high) =>
          /\ result[1].ats_score < 700
          /\ high[1] = DensityMessage
          /\ SubSeq(high, 2, 4) = HighGuidance

\* C10 as amended: the density warning is in the 'high' bucket exactly
\* when the unrounded ats_score is below 70, so only if the reported
\* ats_score is at most 70.0; when present it is the first entry, ahead
\* of the three fixed guidance strings, and it appears once.
C10_DensityOnlyBelowUnrounded70 ==
  Returned =>
    LET high == result[1].recommendations.high
    IN  /\ HasDensityWarning(high) <=> EngineOut.ats_score[1] < 70
        /\ HasDensityWarning(high) =>
             /\ result[1].ats_score <= 700
             /\ high[1] = DensityMessage
             /\ SubSeq(high, 2, 4) = HighGuidance
             /\ \A i \in 2..Len(high) : high[i] # DensityMessage
        /\ ~HasDensityWarning(high) =>
             /\ result[1].ats_score >= 700
             /\ SubSeq(high, 1, 3) = HighGuidance

\* C10 witness: the warning is present and the reported ats_score is 70.0
C10_Witness ==
  /\ Returned
  /\ result[1].ats_score = 700
  /\ result[1].recommendations.high[1] = DensityMessage

\* the message generate_recommendations builds for a critical section
CriticalSectionMessage(entry) ==
  <<"[!] Fix ", entry.name, " section: ">>
  \o SelectSeq(entry.analysis.issues[1],
               LAMBDA tok : tok \notin {"[x] CRITICAL: ", "[!] CRITICAL: "})

\* C4: when the parsed sections hold no 'experience' section, the result's
\* section analyses hold a CRITICAL entry for the absent section and its
\* message is the first element of recommendations['critical'].
C4_AbsentExperienceIsCritical ==
  (Returned /\ \A i \in 1..Len(EngineOut.sections) :
                 EngineOut.sections[i].name # "experience") =>
    LET secs == result[1].sections
        critical == result[1].recommendations.critical
    IN  \E i \in 1..Len(secs) :
          /\ secs[i].name = "experience"
          /\ secs[i].analysis.improvement_priority = "CRITICAL"
          /\ Len(critical) > 0
          /\ critical[1] = CriticalSectionMessage(secs[i])

\* C5: recommendations['critical'] is the missing-required-keywords message
\* (present iff the best match misses required keywords) followed by
\* exactly one message per CRITICAL section, in an order that is the same
\* whatever the order in which the sections were inserted.
C5_CriticalOrderFixed ==
  Returned =>
    LET v == result[1]
        secs == v.sections
        critical == v.recommendations.critical
        b == v.job_matches[ArgmaxFirst(v.job_matches)]
        lead == IF Len(b.missing_required) > 0 THEN 1 ELSE 0
        crit == {i \in 1..Len(secs) :
                   secs[i].analysis.improvement_priority = "CRITICAL"}
    IN  /\ HasMissingMessage(critical) <=> lead = 1
        /\ Len(critical) = lead + Cardinality(crit)
        /\ \A i \in crit : \E k \in (lead + 1)..Len(critical) :
             critical[k] = CriticalSectionMessage(secs[i])
        /\ \A p \in Permutations(1..Len(secs)) :
             generate_recommendations(
               v.job_matches, [i \in 1..Len(secs) |-> secs[p[i]]],
               EngineOut.ats_score).critical = critical

(***************************************************************************)
(* Properties of the /analyze handler (Spec).                              *)
(***************************************************************************)
Arrived == {r \in Requests : req[r].pc # "idle"}

Finished == {r \in Requests : req[r].pc = "done"}

\* the twelve top-level keys of an analysis
AnalysisKeys ==
  {"report_id", "ats_score", "best_job_match", "match_percentage",
   "tech_keywords_found", "improvement_potential", "total_words",
   "job_matches", "sections", "score_breakdown", "recommendations",
   "tech_keywords"}

OwnUploadKept(r) ==
  req[r].filepath # None /\ Exists(uploads, req[r].filepath[1])

OwnReportKept(r) == Exists(reports, ReportPath(req[r].file_id))

\* C3 as claimed: when the extracted text is the empty string, the run
\* yields a fully populated result with total_words = 0 and
\* tech_keywords_found = 0 and does not end in a failure.
C3_EmptyTextYieldsResult ==
  \A r \in Finished :
    (req[r].resume_text.kind = "text" /\ req[r].resume_text.text = <<>>) =>
      /\ req[r].response[1].success
      /\ DOMAIN req[r].response[1].analysis = AnalysisKeys
      /\ req[r].response[1].analysis.total_words = 0
      /\ req[r].response[1].analysis.tech_keywords_found = 0

\* C3 as amended: when the extracted text is the empty string, the request
\* ends in the single failure response 'Could not extract text from the
\* file': perform_comprehensive_analysis is not called, no report is
\* written and the upload is removed.
C3_EmptyTextRejected ==
  \A r \in Requests :
    (req[r].resume_text.kind = "text" /\ req[r].resume_text.text = <<>>) =>
      /\ req[r].pc \in {"cleanup", "done"}
      /\ req[r].analysis_result = None
      /\ ~OwnReportKept(r)
      /\ req[r].pc = "done" =>
           /\ req[r].response =
                Some(Failure(<<"Could not extract text from the file">>))
           /\ req[r].responses = 1
           /\ ~OwnUploadKept(r)

\* C3 witness: a request whose extracted text was empty has finished
C3_Witness ==
  \E r \in Finished :
    /\ req[r].resume_text.kind = "text"
    /\ req[r].resume_text.text = <<>>
    /\ req[r].extract_calls = 1
    /\ ~req[r].response[1].success

\* C6: every request ends in exactly one of two outcomes, a success
\* response carrying an analysis with all twelve keys or a single failure
\* response without analysis data; no exception leaves the handler.
C6_SuccessOrSingleFailure ==
  \A r \in Requests :
    /\ req[r].pc # "escaped"
    /\ req[r].pc # "done" => req[r].response = None /\ req[r].responses = 0
    /\ req[r].pc = "done" =>
         /\ req[r].responses = 1
         /\ req[r].response # None
         /\ LET response == req[r].response[1]
            IN  IF response.success
                THEN /\ DOMAIN response = {"success", "analysis"}
                     /\ DOMAIN response.analysis = AnalysisKeys
                     /\ response.analysis = req[r].analysis_result[1]
                ELSE /\ DOMAIN response = {"success", "error"}
                     /\ Len(response.error) > 0

\* C6 witness: faults of extraction, analysis, report generation and
\* response building are all among the outcomes: here a request whose
\* analysis raised has ended in a failure response
C6_Witness ==
  \E r \in Finished :
    /\ req[r].response[1] = Failure(<<"Analysis failed: ", "EngineError">>)
    /\ req[r].analysis_result = None
    /\ req[r].extract_calls = 1

\* the file name has an extension, the part after its last dot, and that
\* extension is pdf or txt whatever its case
HasAllowedExtension(filename) ==
  \E i \in 1..Len(filename) :
    /\ filename[i] = "."
    /\ \A j \in (i + 1)..Len(filename) : filename[j] # "."
    /\ \E ext \in ALLOWED_EXTENSIONS :
         /\ Len(ext) = Len(filename) - i
         /\ \A k \in 1..Len(ext) : LowerChar(filename[i + k]) = ext[k]

\* C7: a request whose file name has no extension, or an extension other
\* than pdf and txt compared case-insensitively, is rejected with a failure
\* response: its file is not saved, extraction is not attempted and no
\* upload or report file results from it.
C7_RejectedBeforeSave ==
  \A r \in Arrived :
    (req[r].input[1].has_file /\ ~HasAllowedExtension(req[r].input[1].filename)) =>
      /\ req[r].pc = "done"
      /\ ~req[r].response[1].success
      /\ ~req[r].saved
      /\ req[r].extract_calls = 0
      /\ req[r].touched = {}
      /\ req[r].filepath = None

\* C7 witness: a file name with a dot whose extension is not allowed, one
\* of whose earlier components is an allowed extension, has been rejected
C7_Witness ==
  \E r \in Finished :
    /\ req[r].input[1].filename = Name(<<"p", "d", "f", ".", "d", "o", "c">>)
    /\ ~req[r].response[1].success
    /\ ~req[r].saved

\* C8: once a request has finished, on any exit path, the upload saved for
\* it is no longer in the uploads folder.
C8_UploadRemovedOnEveryExit ==
  \A r \in Finished : ~OwnUploadKept(r)

\* the response of a request that runs alone on the input, with the id
RunAlone(input, file_id) ==
  IF ~input.has_file THEN Failure(<<"No file provided">>)
  ELSE IF input.filename = <<>> THEN Failure(<<"No file selected">>)
  ELSE IF ~HasAllowedExtension(input.filename)
  THEN Failure(<<"Invalid file type. Please upload PDF or TXT files only.">>)
  ELSE IF ~HasDot(secure_filename(input.filename))
  THEN Failure(<<"Analysis failed: ", "IndexError">>)
  ELSE IF input.doc.kind = "corrupt"
  THEN Failure(<<"Analysis failed: ", "ExtractionError">>)
  ELSE IF input.doc.kind = "scanned" \/ input.doc.text = <<>>
  THEN Failure(<<"Could not extract text from the file">>)
  ELSE IF EngineTable[input.doc.text].fault \in {"analysis", "report"}
  THEN Failure(<<"Analysis failed: ", "EngineError">>)
  ELSE IF EngineTable[input.doc.text].fault = "jsonify"
  THEN Failure(<<"Analysis failed: ", "TypeError">>)
  ELSE [success |-> TRUE,
        analysis |-> perform_comprehensive_analysis(input.doc.text, file_id)]

\* C9: under any interleaving of the steps of concurrent requests, each
\* request reads, writes and removes only the upload and the report named
\* by its own file_id, no two requests share a file_id, and each returns
\* the response it would return running alone on its input.
C9_RequestsIsolated ==
  /\ \A r \in Requests :
       /\ \A path \in req[r].touched : path[2] = req[r].file_id
       /\ req[r].pc \in {"analyse", "report", "remove", "respond"} =>
            /\ req[r].resume_text.text = req[r].input[1].doc.text
            /\ OwnUploadKept(r) \/ req[r].pc = "respond"
       /\ OwnReportKept(r) =>
            ContentAt(reports, ReportPath(req[r].file_id)) =
              [report_of |-> req[r].input[1].doc.text]
       /\ req[r].pc = "done" =>
            req[r].response[1] = RunAlone(req[r].input[1], req[r].file_id)
  /\ \A r1, r2 \in Requests :
       r1 # r2 => req[r1].touched \cap req[r2].touched = {}

\* C9 witness: two requests with different documents under the same client
\* file name are in flight together, both uploads in the folder, and one
\* has finished with the analysis of its own document
C9_Witness ==
  \E r1, r2 \in Requests :
    /\ r1 # r2
    /\ req[r1].pc = "report"
    /\ req[r2].pc = "done"
    /\ req[r2].response[1].success
    /\ req[r1].input[1].filename = req[r2].input[1].filename
    /\ req[r1].input[1].doc.text = TextB
    /\ req[r2].input[1].doc.text = TextA
    /\ req[r1].file_id = "1"
    /\ req[r2].file_id = "2"
    /\ OwnUploadKept(r1)

====
